---------------------------- MODULE Spec2Model ----------------------------
(***************************************************************************)
(* Model of list_installed_apps.py: the system-app enumerator, the         *)
(* inventory fetcher, the classifier, the inclusion filter and the         *)
(* reporter, with main as a step machine over them.                        *)
(*                                                                         *)
(* Python values are tagged records [t, s]: t is the Python type ("str",   *)
(* "none") or "raise" for an exception leaving the function, and s is the  *)
(* string value (or the exception's name).  Python strings are TLA+        *)
(* strings; Len, SubSeq and \o act on them character by character.         *)
(***************************************************************************)
EXTENDS Integers, Sequences, FiniteSets, TLC

VARIABLES
    pc,               \* position of main: which statement runs next
    dirs,             \* state of the two system directories (environment)
    cmd,              \* outcome of the system_profiler invocation (environment)
    system_apps,      \* main's local system_apps
    installed_apps,   \* main's local installed_apps
    idx,              \* position of the loop "for app in installed_apps"
    categorized_apps, \* main's defaultdict(list): category -> list of entries
    render,           \* sorted(categorized_apps.items()) still to be rendered
    out,              \* the lines printed to standard output so far
    exitcode,         \* process exit status, -1 while running
    invocations,      \* number of times the inventory command was run
    arg_name,         \* classifier harness: the app_name argument
    arg_path,         \* classifier harness: the path argument
    result            \* classifier harness: the value returned

vars == <<pc, dirs, cmd, system_apps, installed_apps, idx, categorized_apps,
          render, out, exitcode, invocations, arg_name, arg_path, result>>

-----------------------------------------------------------------------------
(* Python values *)

Str(s) == [t |-> "str", s |-> s]
None == [t |-> "none", s |-> ""]
Raise(e) == [t |-> "raise", s |-> e]
IsStr(v) == v.t = "str"

(* str(v) as an f-string renders it *)
PyFormat(v) == IF v.t = "none" THEN "None" ELSE v.s

-----------------------------------------------------------------------------
(* Python string operations *)

Char(s, i) == SubSeq(s, i, i)

UpperAZ == "ABCDEFGHIJKLMNOPQRSTUVWXYZ"
LowerAZ == "abcdefghijklmnopqrstuvwxyz"

(* the lower-case letter of each upper-case letter *)
LowerOf == [c \in { Char(UpperAZ, i) : i \in 1..26 } |->
               Char(LowerAZ, CHOOSE i \in 1..26 : Char(UpperAZ, i) = c)]

LowerChar(c) == IF c \in DOMAIN LowerOf THEN LowerOf[c] ELSE c

RECURSIVE lower(_)
lower(s) ==
    IF Len(s) = 0 THEN ""
    ELSE LowerChar(Char(s, 1)) \o lower(SubSeq(s, 2, Len(s)))

(* sub in s *)
Contains(sub, s) ==
    \E i \in 1..(Len(s) - Len(sub) + 1) : SubSeq(s, i, i + Len(sub) - 1) = sub

startswith(s, prefix) ==
    Len(s) >= Len(prefix) /\ SubSeq(s, 1, Len(prefix)) = prefix

endswith(s, suffix) ==
    Len(s) >= Len(suffix) /\ SubSeq(s, Len(s) - Len(suffix) + 1, Len(s)) = suffix

(* s.replace(old, ""): every non-overlapping occurrence, left to right *)
RECURSIVE remove(_, _)
remove(s, old) ==
    IF Len(s) = 0 THEN ""
    ELSE IF startswith(s, old) THEN remove(SubSeq(s, Len(old) + 1, Len(s)), old)
    ELSE Char(s, 1) \o remove(SubSeq(s, 2, Len(s)), old)

(* the printable ASCII characters in code-point order: 32..95 and 97..126 *)
AsciiLow ==
    " !\"#$%&'()*+,-./0123456789:;<=>?@ABCDEFGHIJKLMNOPQRSTUVWXYZ[\\]^_"
AsciiHigh == "abcdefghijklmnopqrstuvwxyz{|}~"

CodePoint ==
    [c \in { Char(AsciiLow, i) : i \in 1..Len(AsciiLow) } |->
        31 + CHOOSE i \in 1..Len(AsciiLow) : Char(AsciiLow, i) = c]
    @@ [c \in { Char(AsciiHigh, i) : i \in 1..Len(AsciiHigh) } |->
        96 + CHOOSE i \in 1..Len(AsciiHigh) : Char(AsciiHigh, i) = c]

ord(c) == CodePoint[c]

(* a < b on str: by code point, a proper prefix first *)
RECURSIVE StrLess(_, _)
StrLess(a, b) ==
    IF Len(b) = 0 THEN FALSE
    ELSE IF Len(a) = 0 THEN TRUE
    ELSE IF Char(a, 1) = Char(b, 1)
         THEN StrLess(SubSeq(a, 2, Len(a)), SubSeq(b, 2, Len(b)))
         ELSE ord(Char(a, 1)) < ord(Char(b, 1))

-----------------------------------------------------------------------------
(* Classifier *)

special_cases ==
    ("Google Slides" :> "Productivity") @@
    ("Google Docs" :> "Productivity") @@
    ("Google Sheets" :> "Productivity") @@
    ("Keynote" :> "Productivity") @@
    ("Pages" :> "Productivity") @@
    ("Numbers" :> "Productivity") @@
    ("Obsidian" :> "Productivity") @@
    ("OnyX" :> "Utilities") @@
    ("SteerMouse" :> "Utilities") @@
    ("Tabby" :> "Development") @@
    ("Ubuntu" :> "Virtualization") @@
    ("Yubico Authenticator" :> "Security & Privacy") @@
    ("iStat Menus" :> "Utilities") @@
    ("iStat Menus Helper" :> "Utilities") @@
    ("iStat Menus Menubar" :> "Utilities") @@
    ("Scam Copilot" :> "Security & Privacy") @@
    ("Rectangle Pro" :> "Utilities") @@
    ("AppCleaner" :> "Utilities") @@
    ("Bartender 5" :> "Utilities") @@
    ("ForkLift" :> "Utilities") @@
    ("Swift Quit" :> "Utilities")

(* the dict "categories" in insertion order: <<category, keywords>> *)
categories == <<
    <<"Development",
      <<"Visual Studio Code", "Xcode", "Docker", "iTerm", "Python",
        "Developer", "IDE", "Terminal", "Code", "Git">> >>,
    <<"Browsers & Internet",
      <<"Chrome", "Firefox", "Safari", "Opera", "Edge", "Arc", "Browser">> >>,
    <<"Security & Privacy",
      <<"1Password", "Bitwarden", "VPN", "Antivirus", "Bitdefender",
        "Password", "Security", "Radio Silence", "Yubico", "Scam">> >>,
    <<"Productivity",
      <<"Office", "Docs", "Sheets", "Slides", "Notes", "Task",
        "Calendar", "Mail", "Presentation", "Document">> >>,
    <<"Utilities",
      <<"Rectangle", "Bartender", "AppCleaner", "ForkLift",
        "Utility", "Cleaner", "Manager", "Stats", "Monitor",
        "Helper", "Menu">> >>,
    <<"Media & Creative",
      <<"DaVinci", "Luminar", "Screen", "Spotify",
        "Music", "Photo", "Video", "Audio", "Creative", "Media">> >>,
    <<"Cloud Storage",
      <<"Google Drive", "Dropbox", "iCloud", "OneDrive", "Box", "Sync">> >>,
    <<"Virtualization",
      <<"Parallels", "VMware", "VirtualBox", "Virtual", "VM", "Linux",
        "Windows", "Ubuntu">> >> >>

(* keyword.lower() for every keyword of every row *)
lowered_keywords ==
    [i \in 1..Len(categories) |->
        [j \in 1..Len(categories[i][2]) |-> lower(categories[i][2][j])]]

(* any(keyword.lower() in app_name_lower for keyword in keywords), row i *)
AnyKeyword(i, app_name_lower) ==
    \E j \in 1..Len(lowered_keywords[i]) :
        Contains(lowered_keywords[i][j], app_name_lower)

(* variant: the last matching row wins instead of the first *)
RECURSIVE KeywordScan_last_match(_, _)
KeywordScan_last_match(i, app_name_lower) ==
    IF i > Len(categories) THEN "Other"
    ELSE LET rest == KeywordScan_last_match(i + 1, app_name_lower)
         IN IF rest # "Other" THEN rest
            ELSE IF AnyKeyword(i, app_name_lower) THEN categories[i][1]
            ELSE "Other"

(* for category, keywords in categories.items(): the scan from row i on *)
RECURSIVE KeywordScan(_, _)
KeywordScan(i, app_name_lower) ==
    IF i > Len(categories) THEN "Other"
    ELSE IF AnyKeyword(i, app_name_lower) THEN categories[i][1]
    ELSE KeywordScan(i + 1, app_name_lower)

(* app_name and path are Python values; the result is a str or a raise *)
(* variant: the keyword rules are tried before the override table *)
get_app_category_keywords_first(app_name, path) ==
    IF ~IsStr(app_name) THEN Raise("AttributeError")
    ELSE IF Contains("ubuntu", lower(app_name.s)) THEN Str("Virtualization")
    ELSE IF KeywordScan(1, lower(app_name.s)) # "Other"
         THEN Str(KeywordScan(1, lower(app_name.s)))
    ELSE IF app_name.s \in DOMAIN special_cases THEN Str(special_cases[app_name.s])
    ELSE Str("Other")

get_app_category(app_name, path) ==
    IF IsStr(app_name) /\ app_name.s \in DOMAIN special_cases
    THEN Str(special_cases[app_name.s])
    ELSE IF ~IsStr(app_name) THEN Raise("AttributeError")
    ELSE IF Contains("ubuntu", lower(app_name.s)) THEN Str("Virtualization")
    ELSE Str(KeywordScan(1, lower(app_name.s)))

-----------------------------------------------------------------------------
(* System-app enumerator *)

system_paths == <<"/System/Applications", "/System/Applications/Utilities">>

(* A directory of the environment: missing, a directory that can be listed, *)
(* or a path that exists but that os.listdir cannot list (a plain file, or a *)
(* directory without read permission).                                      *)
Missing == [state |-> "missing", files |-> {}]
Unlistable == [state |-> "unlistable", files |-> {}]
Listing(files) == [state |-> "listable", files |-> files]

(* os.path.exists(path) *)
exists(d) == d.state # "missing"

(* an exception leaves get_system_apps: os.listdir raises OSError *)
get_system_apps_raises(ds) ==
    \E i \in 1..Len(system_paths) : exists(ds[i]) /\ ds[i].state = "unlistable"

(* the set returned when no exception is raised *)
get_system_apps(ds) ==
    UNION { { remove(f, ".app") : f \in { g \in ds[i].files : endswith(g, ".app") } } :
            i \in { j \in 1..Len(system_paths) : exists(ds[j]) } }

-----------------------------------------------------------------------------
(* Inventory fetcher *)

(* JSON values of an entry's fields: a string, null, or the key is absent *)
Absent == [t |-> "absent", s |-> ""]

(* an element of the SPApplicationsDataType list: a JSON object with its   *)
(* five keys, or a JSON value that is not an object                        *)
Object(n, p, v, o, m) ==
    [isObject |-> TRUE, name |-> n, path |-> p, version |-> v,
     obtained_from |-> o, lastModified |-> m]
NotAnObject ==
    [Object(Absent, Absent, Absent, Absent, Absent) EXCEPT !.isObject = FALSE]

(* app.get(key, "Unknown") *)
get(v, default) == IF v.t = "absent" THEN Str(default) ELSE v

(* the dict app_info built for one element *)
app_info(app) ==
    [name |-> get(app.name, "Unknown"),
     path |-> get(app.path, "Unknown"),
     version |-> get(app.version, "Unknown"),
     obtained_from |-> get(app.obtained_from, "Unknown"),
     last_modified |-> get(app.lastModified, "Unknown")]

(* Outcomes of running the command and reading its stdout:                 *)
(*   spawn_error   subprocess.run raises (command cannot be started)       *)
(*   not_json      stdout is not JSON (e.g. empty after a non-zero exit)   *)
(*   not_object    JSON whose top level is not an object                   *)
(*   key_missing   an object without the key SPApplicationsDataType        *)
(*   not_iterable  the key holds a value that cannot be iterated           *)
(*   list          the key holds a list, cmd.entries                       *)
(* an exception is raised inside the try block *)
fetch_raises(c) ==
    \/ c.kind \in {"spawn_error", "not_json", "not_object", "not_iterable"}
    \/ c.kind = "list" /\ \E i \in 1..Len(c.entries) : ~c.entries[i].isObject

(* variant: on a failure, the records parsed before it are returned *)
get_installed_apps_keeps_parsed(c) ==
    IF c.kind \in {"spawn_error", "not_json", "not_object", "not_iterable", "key_missing"}
    THEN << >>
    ELSE LET good == { n \in 0..Len(c.entries) : \A i \in 1..n : c.entries[i].isObject }
             n == CHOOSE m \in good : \A k \in good : k <= m
         IN [i \in 1..n |-> app_info(c.entries[i])]

get_installed_apps(c) ==
    IF fetch_raises(c) THEN << >>
    ELSE IF c.kind = "key_missing" THEN << >>
    ELSE [i \in 1..Len(c.entries) |-> app_info(c.entries[i])]

-----------------------------------------------------------------------------
(* Source formatting and inclusion filter *)

source_map ==
    ("mac_app_store" :> "App Store") @@
    ("identified_developer" :> "Verified Dev") @@
    ("unknown" :> "Unknown") @@
    ("apple" :> "Apple")

(* variant: the table is looked up without lowering the source *)
format_source_case_sensitive(source) ==
    IF ~IsStr(source) THEN Raise("AttributeError")
    ELSE IF source.s \in DOMAIN source_map THEN Str(source_map[source.s])
    ELSE source

format_source(source) ==
    IF ~IsStr(source) THEN Raise("AttributeError")
    ELSE IF lower(source.s) \in DOMAIN source_map
         THEN Str(source_map[lower(source.s)])
         ELSE source

excluded_apps == {"GarageBand", "iMovie", "Keynote", "Numbers", "Pages"}

system_prefixes == <<"/System/Library/", "/System/Applications/", "/Library/Apple/">>

InExcluded(app) == IsStr(app.name) /\ app.name.s \in excluded_apps

(* an exception leaves should_include_app: .lower() or .startswith() on a  *)
(* value that is not a str                                                 *)
should_include_app_raises(app) ==
    /\ ~InExcluded(app)
    /\ \/ ~IsStr(app.obtained_from)
       \/ lower(app.obtained_from.s) # "apple" /\ ~IsStr(app.path)

(* variant: the source is compared without lowering it *)
should_include_app_case_sensitive(app) ==
    IF InExcluded(app) THEN FALSE
    ELSE IF app.obtained_from.s = "apple" THEN FALSE
    ELSE IF \E i \in 1..Len(system_prefixes) :
                startswith(app.path.s, system_prefixes[i]) THEN FALSE
    ELSE TRUE

(* variant: the path prefixes are not looked at *)
should_include_app_ignores_path(app) ==
    IF InExcluded(app) THEN FALSE
    ELSE IF lower(app.obtained_from.s) = "apple" THEN FALSE
    ELSE TRUE

(* variant: the source is not looked at *)
should_include_app_ignores_source(app) ==
    IF InExcluded(app) THEN FALSE
    ELSE IF \E i \in 1..Len(system_prefixes) :
                startswith(app.path.s, system_prefixes[i]) THEN FALSE
    ELSE TRUE

(* the boolean returned when no exception is raised *)
should_include_app(app) ==
    IF InExcluded(app) THEN FALSE
    ELSE IF lower(app.obtained_from.s) = "apple" THEN FALSE
    ELSE IF \E i \in 1..Len(system_prefixes) :
                startswith(app.path.s, system_prefixes[i]) THEN FALSE
    ELSE TRUE

-----------------------------------------------------------------------------
(* Reporter *)

(* the bullet character U+2022 that starts an entry line *)
Bullet == "*"

RECURSIVE Repeat(_, _)
Repeat(c, n) == IF n = 0 THEN "" ELSE c \o Repeat(c, n - 1)

(* the entry stored in categorized_apps for an included record *)
entry_info(app) ==
    [name |-> app.name, version |-> app.version,
     source |-> format_source(app.obtained_from)]

(* categorized_apps[category].append(entry) on a defaultdict(list) *)
append_to(d, category, entry) ==
    IF category \in DOMAIN d
    THEN [d EXCEPT ![category] = Append(@, entry)]
    ELSE d @@ (category :> <<entry>>)

(* sorted(...) of a set of distinct str keys: ascending by code point *)
RECURSIVE sorted_keys(_)
sorted_keys(S) ==
    IF S = {} THEN << >>
    ELSE LET least == CHOOSE x \in S : \A y \in S \ {x} : StrLess(x, y)
         IN <<least>> \o sorted_keys(S \ {least})

(* sorted(categorized_apps.items()): the keys are distinct, so the tuples  *)
(* are ordered by key alone                                                *)
sorted_items(d) ==
    LET keys == sorted_keys(DOMAIN d)
    IN [i \in 1..Len(keys) |-> <<keys[i], d[keys[i]]>>]

(* insert into a list sorted by name, after the entries that are not greater *)
RECURSIVE insert_by_name(_, _)
insert_by_name(e, sq) ==
    IF Len(sq) = 0 THEN <<e>>
    ELSE IF StrLess(e.name.s, Head(sq).name.s) THEN <<e>> \o sq
    ELSE <<Head(sq)>> \o insert_by_name(e, Tail(sq))

(* variant: the entries are left in insertion order *)
unsorted(apps) == apps

(* sorted(apps, key=lambda x: x["name"]): stable, ascending by name *)
RECURSIVE sorted_by_name(_)
sorted_by_name(apps) ==
    IF Len(apps) = 0 THEN << >>
    ELSE insert_by_name(apps[Len(apps)], sorted_by_name(SubSeq(apps, 1, Len(apps) - 1)))

(* [app for app in apps if app["source"] != "Apple"] *)
filtered(apps) == SelectSeq(apps, LAMBDA e : e.source # Str("Apple"))

(* the line printed for one entry *)
entry_line(e) ==
    IF e.version # Str("Unknown")
    THEN Bullet \o " " \o PyFormat(e.name) \o " (v" \o PyFormat(e.version)
         \o ") [" \o PyFormat(e.source) \o "]"
    ELSE Bullet \o " " \o PyFormat(e.name) \o " [" \o PyFormat(e.source) \o "]"

(* the lines the body of the rendering loop prints for one (category, apps) *)
category_block(category, apps) ==
    IF Len(apps) > 0 /\ Len(filtered(apps)) > 0
    THEN LET shown == sorted_by_name(filtered(apps))
         IN <<"", category \o ":", Repeat("-", Len(category))>>
            \o [i \in 1..Len(shown) |-> entry_line(shown[i])]
    ELSE << >>

Banner == "Analyzing installed applications..."
FetchError == "Error getting installed apps"
Title == "Third-Party Applications by Category:"
TitleRule == Repeat("=", 50)

-----------------------------------------------------------------------------
(* main *)

(* print the banner, then system_apps = get_system_apps() *)
Start ==
    /\ pc = "start"
    /\ out' = Append(out, Banner)
    /\ IF get_system_apps_raises(dirs)
       THEN /\ pc' = "crashed"
            /\ exitcode' = 1
            /\ UNCHANGED system_apps
       ELSE /\ pc' = "fetch"
            /\ system_apps' = get_system_apps(dirs)
            /\ UNCHANGED exitcode
    /\ UNCHANGED <<dirs, cmd, installed_apps, idx, categorized_apps, render,
                   invocations, arg_name, arg_path, result>>

(* installed_apps = get_installed_apps(); its except branch prints *)
Fetch ==
    /\ pc = "fetch"
    /\ installed_apps' = get_installed_apps(cmd)
    /\ out' = IF fetch_raises(cmd) THEN Append(out, FetchError) ELSE out
    /\ invocations' = invocations + 1
    /\ idx' = 1
    /\ pc' = "categorize"
    /\ UNCHANGED <<dirs, cmd, system_apps, categorized_apps, render, exitcode,
                   arg_name, arg_path, result>>

(* app_name not in system_apps, the first operand of the loop's condition *)
not_in_system_apps(app, apps) == ~(IsStr(app.name) /\ app.name.s \in apps)

(* an exception leaves the body of the categorizing loop *)
body_raises(app) ==
    /\ not_in_system_apps(app, system_apps)
    /\ \/ should_include_app_raises(app)
       \/ should_include_app(app)
          /\ get_app_category(app.name, app.path).t = "raise"

(* variant: the system-app set is not consulted *)
passes_without_system_check(app) == should_include_app(app)

(* app_name not in system_apps and should_include_app(app) *)
passes(app) == not_in_system_apps(app, system_apps) /\ should_include_app(app)

(* one iteration of "for app in installed_apps" *)
Categorize ==
    /\ pc = "categorize"
    /\ idx <= Len(installed_apps)
    /\ LET app == installed_apps[idx] IN
       IF body_raises(app)
       THEN /\ pc' = "crashed"
            /\ exitcode' = 1
            /\ UNCHANGED <<idx, categorized_apps>>
       ELSE /\ idx' = idx + 1
            /\ categorized_apps' =
                  IF passes(app)
                  THEN append_to(categorized_apps,
                                 get_app_category(app.name, app.path).s,
                                 entry_info(app))
                  ELSE categorized_apps
            /\ UNCHANGED <<pc, exitcode>>
    /\ UNCHANGED <<dirs, cmd, system_apps, installed_apps, render, out,
                   invocations, arg_name, arg_path, result>>

(* the loop ends: print the title and its rule, sort the items *)
PrintHeader ==
    /\ pc = "categorize"
    /\ idx > Len(installed_apps)
    /\ out' = out \o <<"", Title, TitleRule>>
    /\ render' = sorted_items(categorized_apps)
    /\ pc' = "render"
    /\ UNCHANGED <<dirs, cmd, system_apps, installed_apps, idx, categorized_apps,
                   exitcode, invocations, arg_name, arg_path, result>>

(* one iteration of "for category, apps in sorted(...)" *)
RenderCategory ==
    /\ pc = "render"
    /\ Len(render) > 0
    /\ out' = out \o category_block(Head(render)[1], Head(render)[2])
    /\ render' = Tail(render)
    /\ UNCHANGED <<pc, dirs, cmd, system_apps, installed_apps, idx,
                   categorized_apps, exitcode, invocations, arg_name, arg_path,
                   result>>

(* main returns and the interpreter exits *)
Exit ==
    /\ pc = "render"
    /\ Len(render) = 0
    /\ pc' = "done"
    /\ exitcode' = 0
    /\ UNCHANGED <<dirs, cmd, system_apps, installed_apps, idx, categorized_apps,
                   render, out, invocations, arg_name, arg_path, result>>

-----------------------------------------------------------------------------
(* The environment a run starts in *)

(* longest SPApplicationsDataType list explored *)
MaxApps == 2

(* contents of /System/Applications and of /System/Applications/Utilities *)
ApplicationsDir ==
    {Missing, Unlistable, Listing({"Calculator.app", "Safari.app", ".localized", "Utilities"})}
UtilitiesDir ==
    {Missing, Listing({"Terminal.app", "Docker.app", "README.txt"})}
DirStates == {<<a, u>> : a \in ApplicationsDir, u \in UtilitiesDir}

Modified == Str("2024-01-15T10:00:00Z")

(* elements the inventory list is drawn from *)
Items == {
    Object(Str("Obsidian"), Str("/Applications/Obsidian.app"), Str("1.2.0"),
           Str("identified_developer"), Modified),
    Object(Str("Keynote"), Str("/Applications/Keynote.app"), Str("12.0"),
           Str("apple"), Modified),
    Object(Str("vUbuntu 22.04"), Str("/Applications/vUbuntu.app"), Str("Unknown"),
           Str("unknown"), Absent),
    Object(Str("Code Browser"), Str("/Applications/Code Browser.app"), Str("2.0"),
           Str("Apple"), Modified),
    Object(Str("Arc"), Str("/Applications/Arc.app"), Absent,
           Str("APPLE"), Modified),
    Object(Str("Calculator"), Str("/Applications/Calculator.app"), Str("3.1"),
           Str("mac_app_store"), Modified),
    Object(Str("Migration Helper"),
           Str("/System/Library/CoreServices/Migration Helper.app"), Str("14.0"),
           Str("unknown"), Modified),
    Object(Str("Rosetta Updater"), Str("/Library/Apple/usr/libexec/Rosetta.app"),
           Absent, Str("identified_developer"), Absent),
    Object(Str("Docker"), Absent, Absent, Absent, Absent),
    Object(Str("iTerm"), Str("/Applications/iTerm.app"), Str("3.4"),
           Str("homebrew"), Modified),
    Object(Str("Xcode"), Str("/Applications/Xcode.app"), Str("15.2"),
           Str("Mac_App_Store"), Modified),
    Object(Str("GarageBand"), Str("/Applications/GarageBand.app"), Str("10.4"),
           Str("mac_app_store"), Modified),
    Object(Str("Figma"), Str("/Applications/Figma.app"), Str("116"),
           None, Modified),
    Object(Str("Zoom"), None, Str("5.0"), Str("unknown"), Modified),
    Object(None, Str("/Applications/Nameless.app"), Str("1.0"),
           Str("identified_developer"), Modified),
    NotAnObject }

SeqsUpTo(S, n) == UNION { [1..m -> S] : m \in 0..n }

Commands ==
    { [kind |-> k, entries |-> << >>] :
        k \in {"spawn_error", "not_json", "not_object", "key_missing", "not_iterable"} }
    \cup { [kind |-> "list", entries |-> e] : e \in SeqsUpTo(Items, MaxApps) }

Init ==
    /\ pc = "start"
    /\ dirs \in DirStates
    /\ cmd \in Commands
    /\ system_apps = {}
    /\ installed_apps = << >>
    /\ idx = 0
    /\ categorized_apps = << >>
    /\ render = << >>
    /\ out = << >>
    /\ exitcode = -1
    /\ invocations = 0
    /\ arg_name = None
    /\ arg_path = None
    /\ result = None

Next ==
    \/ Start
    \/ Fetch
    \/ Categorize
    \/ PrintHeader
    \/ RenderCategory
    \/ Exit

Spec == Init /\ [][Next]_vars

-----------------------------------------------------------------------------
(* Classifier on its own: get_app_category applied to one (name, path) *)

AllKeywords ==
    UNION { { categories[i][2][j] : j \in 1..Len(categories[i][2]) } :
            i \in 1..Len(categories) }

(* two keywords of each table row, joined pairwise into longer names *)
PairKeywords ==
    {"Code", "IDE", "Browser", "Arc", "Password", "VPN", "Docs", "Slides",
     "Helper", "Menu", "Video", "Media", "Box", "Sync", "Ubuntu", "VM"}

ClassifierNames ==
    DOMAIN special_cases
    \cup AllKeywords
    \cup { lower(k) : k \in AllKeywords }
    \cup { a \o " " \o b : a \in PairKeywords, b \in PairKeywords }
    \cup {"", "Unknown", "TextEdit", "vUbuntu 22.04", "UBUNTU Desktop",
          "obsidian", "GOOGLE DOCS", "Zoom", "Figma"}

ClassifierPaths ==
    {Str("/Applications/Some.app"), Str("/System/Applications/Some.app"),
     Str("Unknown")}

InitClassify ==
    /\ pc = "classify"
    /\ dirs = <<Missing, Missing>>
    /\ cmd = [kind |-> "key_missing", entries |-> << >>]
    /\ system_apps = {}
    /\ installed_apps = << >>
    /\ idx = 0
    /\ categorized_apps = << >>
    /\ render = << >>
    /\ out = << >>
    /\ exitcode = -1
    /\ invocations = 0
    /\ arg_name \in { Str(n) : n \in ClassifierNames }
    /\ arg_path \in ClassifierPaths
    /\ result = None

Classify ==
    /\ pc = "classify"
    /\ result' = get_app_category(arg_name, arg_path)
    /\ pc' = "classified"
    /\ UNCHANGED <<dirs, cmd, system_apps, installed_apps, idx, categorized_apps,
                   render, out, exitcode, invocations, arg_name, arg_path>>

NextClassify == Classify

SpecClassify == InitClassify /\ [][NextClassify]_vars

-----------------------------------------------------------------------------
(* Properties of the classifier, checked under SpecClassify *)

CategoryNames ==
    {"Development", "Browsers & Internet", "Security & Privacy", "Productivity",
     "Utilities", "Media & Creative", "Cloud Storage", "Virtualization", "Other"}

Classified == pc = "classified"

(* C5: get_app_category is total: for every name and path it returns one   *)
(* of the nine category names, the same one whatever the path, and for a   *)
(* key of the override table the override's category, even when the name   *)
(* also contains "ubuntu" or a keyword of the table.                       *)
C5_ClassifierTotal ==
    Classified =>
        /\ result.t = "str"
        /\ result.s \in CategoryNames
        /\ \A p \in ClassifierPaths \cup {None} :
              get_app_category(arg_name, p) = result
        /\ arg_name.s \in DOMAIN special_cases =>
              result.s = special_cases[arg_name.s]
        /\ arg_name.s = "Obsidian" => result.s = "Productivity"
        /\ arg_name.s = "Google Docs" => result.s = "Productivity"

(* an override key that also contains a keyword of another category *)
C5_Witness ==
    /\ Classified
    /\ arg_name = Str("Google Slides")
    /\ Contains("ide", lower(arg_name.s))
    /\ result = Str("Productivity")

(* the table order the tie-break is stated in *)
TableOrder ==
    <<"Development", "Browsers & Internet", "Security & Privacy", "Productivity",
      "Utilities", "Media & Creative", "Cloud Storage", "Virtualization">>

KeywordsOf(category) ==
    LET row == CHOOSE i \in 1..Len(categories) : categories[i][1] = category
    IN { categories[row][2][j] : j \in 1..Len(categories[row][2]) }

(* positions in TableOrder of the categories with a keyword inside name *)
Matched(name) ==
    { i \in 1..Len(TableOrder) :
        \E k \in KeywordsOf(TableOrder[i]) : Contains(lower(k), lower(name)) }

FirstMatched(name) ==
    TableOrder[CHOOSE i \in Matched(name) : \A j \in Matched(name) : i <= j]

(* C6 as stated: every name with keywords of two or more categories gets   *)
(* the category that comes first in the table order.                       *)
C6_Original ==
    Classified /\ Cardinality(Matched(arg_name.s)) >= 2 =>
        result.s = FirstMatched(arg_name.s)

(* C6 amended: every name that is not a key of the override table, does    *)
(* not contain "ubuntu" in any case, and contains keywords of two or more  *)
(* categories gets the category that comes first in the table order.       *)
C6_TableOrderTieBreak ==
    /\ Classified
    /\ arg_name.s \notin DOMAIN special_cases
    /\ ~Contains("ubuntu", lower(arg_name.s))
    /\ Cardinality(Matched(arg_name.s)) >= 2
    => result.s = FirstMatched(arg_name.s)

(* "Browser Code": Browsers & Internet written first, Development returned *)
C6_Witness ==
    /\ Classified
    /\ arg_name = Str("Browser Code")
    /\ Matched(arg_name.s) = {1, 2}
    /\ result = Str("Development")

-----------------------------------------------------------------------------
(* Reading the printed report *)

Lines == 1..Len(out)

IsEntryLine(l) == startswith(l, Bullet \o " ")

(* an entry line for the application called n *)
EntryLineFor(n, l) ==
    \/ startswith(l, Bullet \o " " \o n \o " (v")
    \/ startswith(l, Bullet \o " " \o n \o " [")

IsHeaderLine(l) == \E c \in CategoryNames : l = c \o ":"

HeaderCategory(l) == SubSeq(l, 1, Len(l) - 1)

Headers == { h \in Lines : IsHeaderLine(out[h]) }

(* the entry lines that follow the header at h and its rule at h + 1 *)
BlockLines(h) ==
    LET ends == { j \in (h + 1)..Len(out) : \A k \in (h + 2)..j : IsEntryLine(out[k]) }
        last == CHOOSE j \in ends : \A k \in ends : k <= j
    IN SubSeq(out, h + 2, last)

(* the entry lines printed under category c *)
BlockOf(c) ==
    IF \E h \in Lines : out[h] = c \o ":"
    THEN BlockLines(CHOOSE h \in Lines : out[h] = c \o ":")
    ELSE << >>

Count(l, sq) == Cardinality({ k \in 1..Len(sq) : sq[k] = l })

Done == pc = "done"

Records == { installed_apps[i] : i \in 1..Len(installed_apps) }

Stored == UNION { { categorized_apps[c][k] : k \in 1..Len(categorized_apps[c]) } :
                  c \in DOMAIN categorized_apps }

-----------------------------------------------------------------------------
(* Properties of a run of main, checked under Spec *)

(* C1: no application whose name is in the set returned by get_system_apps *)
(* is stored for the report or appears as an entry line, whatever the      *)
(* classifier and the inclusion filter return for it.                      *)
C1_SystemAppsNeverListed ==
    \A n \in system_apps :
        /\ \A e \in Stored : e.name # Str(n)
        /\ \A i \in Lines : ~EntryLineFor(n, out[i])

(* a run that lists something, with a system app the filter would include *)
C1_Witness ==
    /\ Done
    /\ \E r \in Records :
          /\ r.name = Str("Calculator")
          /\ "Calculator" \in system_apps
          /\ should_include_app(r)
          /\ get_app_category(r.name, r.path).s = "Other"
    /\ \E i \in Lines : IsEntryLine(out[i])

AppleSourced(r) == IsStr(r.obtained_from) /\ lower(r.obtained_from.s) = "apple"

HasSystemPrefix(p) ==
    \/ startswith(p, "/System/Library/")
    \/ startswith(p, "/System/Applications/")
    \/ startswith(p, "/Library/Apple/")

(* C2: for every record whose obtained_from is "apple" in any letter case, *)
(* should_include_app returns False and the record's entry line is not in  *)
(* the report, also when nothing else excludes the record.                 *)
C2_AppleSourceExcluded ==
    \A r \in Records :
        AppleSourced(r) =>
            /\ ~should_include_app_raises(r)
            /\ ~should_include_app(r)
            /\ \A i \in Lines : out[i] # entry_line(entry_info(r))

(* "Code Browser" from "Apple": only the source excludes it *)
C2_Witness ==
    /\ Done
    /\ \E r \in Records :
          /\ r.obtained_from = Str("Apple")
          /\ r.name.s \notin excluded_apps \cup system_apps
          /\ ~HasSystemPrefix(r.path.s)
    /\ \E i \in Lines : IsEntryLine(out[i])

(* C3: main never ends in an uncaught exception: the process does not exit *)
(* with a failure status, whatever the command returns and whatever the    *)
(* state of the two directories.                                           *)
C3_NoUncaughtError == pc # "crashed" /\ exitcode \in {-1, 0}

(* the invocation or the parsing fails *)
CommandFailed ==
    \/ cmd.kind \in {"spawn_error", "not_json", "not_object", "not_iterable"}
    \/ cmd.kind = "list" /\ \E i \in 1..Len(cmd.entries) : ~cmd.entries[i].isObject

Defaulted(v) == IF v = Absent THEN Str("Unknown") ELSE v

(* C4: the command is run at most once; when its invocation or parsing     *)
(* fails, get_installed_apps returns the empty list and the finished run   *)
(* printed the header and nothing under it; when parsing succeeds, the     *)
(* records are those of the list, in its order, each absent field set to   *)
(* "Unknown".                                                              *)
C4_FetchFailureIsEmptyInventory ==
    /\ invocations <= 1
    /\ invocations = 1 /\ CommandFailed =>
          /\ installed_apps = << >>
          /\ pc # "crashed"
          /\ Done => out = <<Banner, FetchError, "", Title, TitleRule>>
    /\ invocations = 1 /\ ~CommandFailed /\ cmd.kind = "list" =>
          /\ Len(installed_apps) = Len(cmd.entries)
          /\ \A i \in 1..Len(cmd.entries) :
                /\ installed_apps[i].name = Defaulted(cmd.entries[i].name)
                /\ installed_apps[i].path = Defaulted(cmd.entries[i].path)
                /\ installed_apps[i].version = Defaulted(cmd.entries[i].version)
                /\ installed_apps[i].obtained_from = Defaulted(cmd.entries[i].obtained_from)
                /\ installed_apps[i].last_modified = Defaulted(cmd.entries[i].lastModified)

(* a list whose second element is not an object: the first is discarded too *)
C4_Witness ==
    /\ Done
    /\ cmd.kind = "list"
    /\ Len(cmd.entries) = 2
    /\ cmd.entries[1].name = Str("Obsidian")
    /\ ~cmd.entries[2].isObject
    /\ installed_apps = << >>

(* the record is one the report must list *)
Qualifies(r) ==
    /\ r.name.s \notin system_apps
    /\ r.name.s \notin {"GarageBand", "iMovie", "Keynote", "Numbers", "Pages"}
    /\ lower(r.obtained_from.s) # "apple"
    /\ ~HasSystemPrefix(r.path.s)

QualifyingAt == { i \in 1..Len(installed_apps) : Qualifies(installed_apps[i]) }

(* C7: the finished report has one entry line per qualifying record and no *)
(* other entry line: under each category, every line occurs as many times  *)
(* as there are qualifying records of that category with that line.        *)
C7_ExactlyTheQualifyingRecords ==
    Done =>
        /\ Cardinality({ i \in Lines : IsEntryLine(out[i]) }) = Cardinality(QualifyingAt)
        /\ \A c \in CategoryNames :
              /\ Cardinality({ h \in Lines : out[h] = c \o ":" }) <= 1
              /\ \A l \in { out[i] : i \in Lines }
                          \cup { entry_line(entry_info(installed_apps[i])) : i \in QualifyingAt } :
                    IsEntryLine(l) =>
                        Count(l, BlockOf(c)) =
                        Cardinality({ i \in QualifyingAt :
                            /\ get_app_category(installed_apps[i].name,
                                                installed_apps[i].path) = Str(c)
                            /\ entry_line(entry_info(installed_apps[i])) = l })

(* one record qualifies, the other is kept out by its path alone *)
C7_Witness ==
    /\ Done
    /\ Len(installed_apps) = 2
    /\ installed_apps[1].name = Str("Migration Helper")
    /\ installed_apps[2].name = Str("Xcode")
    /\ BlockOf("Development") = <<Bullet \o " Xcode (v15.2) [App Store]">>
    /\ BlockOf("Utilities") = << >>

(* the source as the report shows it *)
ShownSource(s) ==
    CASE lower(s) = "mac_app_store" -> "App Store"
      [] lower(s) = "identified_developer" -> "Verified Dev"
      [] lower(s) = "unknown" -> "Unknown"
      [] lower(s) = "apple" -> "Apple"
      [] OTHER -> s

(* the entry line of a record as the report format prescribes it *)
ShownLine(r) ==
    IF r.version = Str("Unknown")
    THEN Bullet \o " " \o r.name.s \o " [" \o ShownSource(r.obtained_from.s) \o "]"
    ELSE Bullet \o " " \o r.name.s \o " (v" \o r.version.s \o ") ["
         \o ShownSource(r.obtained_from.s) \o "]"

(* C8: every entry line is the line of a record in the prescribed form:    *)
(* the version clause is present exactly when the version is not           *)
(* "Unknown", the source is mapped by the table in any letter case and     *)
(* printed unchanged otherwise; every record that passes the filters has   *)
(* its line in the finished report.                                        *)
C8_EntryLineFormat ==
    /\ \A i \in Lines :
          IsEntryLine(out[i]) => \E r \in Records : IsStr(r.version) /\ out[i] = ShownLine(r)
    /\ Done =>
          \A r \in Records : passes(r) =>
              \E i \in Lines : out[i] = ShownLine(r)
    /\ Done /\ system_apps = {} =>
          /\ \A r \in Records : r.name = Str("Obsidian") =>
                Count(Bullet \o " Obsidian (v1.2.0) [Verified Dev]",
                      BlockOf("Productivity")) >= 1
          /\ \A r \in Records : r.name = Str("vUbuntu 22.04") =>
                Count(Bullet \o " vUbuntu 22.04 [Unknown]",
                      BlockOf("Virtualization")) >= 1

(* a mixed-case table source and a source outside the table, both printed *)
C8_Witness ==
    /\ Done
    /\ \E r \in Records : r.obtained_from = Str("Mac_App_Store")
    /\ \E r \in Records : r.obtained_from = Str("homebrew")
    /\ BlockOf("Development") =
          <<Bullet \o " Xcode (v15.2) [App Store]", Bullet \o " iTerm (v3.4) [homebrew]">>

(* C9: category headers are printed in ascending order of category name;   *)
(* each is followed by at least one entry line; the entry lines after a    *)
(* header are those of entries of that category in ascending order of      *)
(* name; and no entry line stands outside such a block.                    *)
C9_ReportOrder ==
    /\ \A h1, h2 \in Headers :
          h1 < h2 => StrLess(HeaderCategory(out[h1]), HeaderCategory(out[h2]))
    /\ \A h \in Headers :
          LET c == HeaderCategory(out[h])
              block == BlockLines(h)
              stored == IF c \in DOMAIN categorized_apps
                        THEN { categorized_apps[c][k] : k \in 1..Len(categorized_apps[c]) }
                        ELSE {}
          IN /\ Len(block) >= 1
             /\ \A k \in 1..Len(block) :
                   \E e \in stored :
                       /\ entry_line(e) = block[k]
                       /\ get_app_category(e.name, None) = Str(c)
             /\ \A k \in 1..(Len(block) - 1) :
                   \E e1, e2 \in stored :
                       /\ entry_line(e1) = block[k]
                       /\ entry_line(e2) = block[k + 1]
                       /\ ~StrLess(e2.name.s, e1.name.s)
    /\ \A i \in Lines :
          IsEntryLine(out[i]) =>
              \E h \in Headers : h + 2 <= i /\ i <= h + 1 + Len(BlockLines(h))

(* inventory order iTerm, Docker; report order Docker, iTerm *)
C9_Witness ==
    /\ Done
    /\ Len(installed_apps) = 2
    /\ installed_apps[1].name = Str("iTerm")
    /\ installed_apps[2].name = Str("Docker")
    /\ BlockOf("Development") =
          <<Bullet \o " Docker [Unknown]", Bullet \o " iTerm (v3.4) [homebrew]">>

(* C10: no entry stored in the category mapping has the formatted source   *)
(* "Apple", so the filter applied while rendering removes nothing and      *)
(* every category of the mapping has its header in the finished report.    *)
C10_RenderFilterRedundant ==
    /\ \A e \in Stored : e.source # Str("Apple")
    /\ \A c \in DOMAIN categorized_apps : filtered(categorized_apps[c]) = categorized_apps[c]
    /\ Done => \A c \in DOMAIN categorized_apps : \E h \in Lines : out[h] = c \o ":"

(* a record from "APPLE" that nothing else excludes, next to a listed one *)
C10_Witness ==
    /\ Done
    /\ \E r \in Records :
          /\ r.obtained_from = Str("APPLE")
          /\ Qualifies([r EXCEPT !.obtained_from = Str("unknown")])
    /\ DOMAIN categorized_apps # {}

=============================================================================
